---- MODULE Spec2Model ----
(***************************************************************************)
(* Model of lwip/src/darwin/src/sys_arch.c: the millisecond clock sys_now  *)
(* and the initialisation hook sys_init of the lwIP port, together with    *)
(* the host facilities sys_now reads (<time.h>: clock(), clock_t,          *)
(* CLOCKS_PER_SEC) and the threads of the stack that call the two          *)
(* functions.                                                              *)
(*                                                                         *)
(* Widths are scaled: u32_t has U32Bits bits instead of 32, and clock_t    *)
(* has either U32Bits bits (the 32-bit ABI) or 2 * U32Bits bits (the       *)
(* 64-bit ABI), so that both wrap points are within reach of TLC's         *)
(* integers.  All arithmetic is otherwise the arithmetic of the C code.    *)
(* Time is counted in clock ticks (1 / CLOCKS_PER_SEC seconds).            *)
(***************************************************************************)
EXTENDS Integers, Sequences, FiniteSets, TLC

\* ---- bounds of the model ----
U32Bits == 10        \* width of u32_t (scaled from 32)
MaxSteps == 1        \* number of times host time advances in a behaviour

\* The threads of the stack that call into the port.
Threads == {"tcpip", "app"}

\* Lengths of a short burst of processor time, in ticks.
RunTicks == {1, 2}

VARIABLES
    CLOCKS_PER_SEC,  \* <time.h> build constant: ticks per second
    clockBits,       \* width of clock_t in this build
    clockAvailable,  \* whether the host can tell the processor time used
    cpuTime,         \* processor time the process has used, in ticks (unwrapped)
    realTime,        \* real time elapsed since the stack started, in ticks
    steps,           \* how many times host time has advanced
    pc,              \* pc[th]: "idle", "line8" (th is in sys_now, before its return) or "trap"
    i,               \* i[th]: the local variable i of th's sys_now call
    cur,             \* cur[th]: what th's sys_now call in progress read, and when
    startup,         \* "cold": sys_init not called; "init": called, no sys_now
                     \* begun since; "warm": called, and a sys_now begun since
    callA,           \* the last completed sys_now call when callB completed
    callB,           \* the last completed sys_now call
    crashed          \* the process was terminated by a trap

vars == <<CLOCKS_PER_SEC, clockBits, clockAvailable, cpuTime, realTime, steps,
          pc, i, cur, startup, callA, callB, crashed>>

\* ---- types and host facilities ----

\* Number of values of u32_t; (u32_t)x is x modulo this.
U32Mod == 2 ^ U32Bits

\* The two widths of clock_t (unsigned long): the 32-bit and the 64-bit ABI.
ClockWidths == {U32Bits, 2 * U32Bits}

\* Values of CLOCKS_PER_SEC on the port's target: whole ticks per millisecond
\* (the target's 1000000 scaled to the widths above).
TargetClocksPerSec == {1000, 3000}

\* Values of CLOCKS_PER_SEC an ISO C host may define, among them one that is
\* no multiple of 1000 and one below 1000.
AnyClocksPerSec == TargetClocksPerSec \cup {100, 1500}

\* Number of values of clock_t.
ClockMod == 2 ^ clockBits

\* (clock_t)-1: what clock() returns when the processor time is unavailable.
ClockUnavailable == ClockMod - 1

\* What clock() returns: the processor time used so far, in clock_t.
clock == IF clockAvailable THEN cpuTime % ClockMod ELSE ClockUnavailable

\* The cast (u32_t)x of a non-negative clock_t value.
u32_t(x) == x % U32Mod

\* A duration of ms milliseconds in ticks.
MsToTicks(ms) == (ms * CLOCKS_PER_SEC) \div 1000

\* No call: the value of cur, callA and callB when there is no such call.
NoCall == [made |-> FALSE, raw |-> 0, val |-> 0, cpu |-> 0, real |-> 0,
           after |-> FALSE, init |-> FALSE]

\* ---- sys_arch.c ----

\* A divisor that takes the ticks for microseconds.
TicksPerMs_micro == CLOCKS_PER_SEC \div 1000000

\* The divisor of line 6: CLOCKS_PER_SEC / 1000 in integer arithmetic.
TicksPerMs == CLOCKS_PER_SEC \div 1000

\* Line 6 with % in the place of /.
sys_now_i_mod(r) == r % TicksPerMs

\* Line 6 dividing by CLOCKS_PER_SEC: the reading in seconds.
sys_now_i_seconds(r) == r \div CLOCKS_PER_SEC

\* Line 6: the value of clock() / (CLOCKS_PER_SEC / 1000), for clock() = r.
sys_now_i(r) == r \div TicksPerMs

\* What the division of line 6 can produce for clock() = r.  With a divisor of
\* zero the behaviour is undefined: the process traps (-1), or the build leaves
\* some quotient in i.
Line6Outcomes(r) == IF TicksPerMs = 0 THEN {-1, 0, U32Mod - 1} ELSE {sys_now_i(r)}

\* A static i: one variable for the calls of all threads.
Slot_static(th) == "tcpip"

\* Where the local variable i of th's call is stored: in th's own frame.
Slot(th) == th

\* Line 8: the value of (u32_t)i.
sys_now_return_value(x) == u32_t(x)

\* The part of the state a port function could touch.
PortState == [CLOCKS_PER_SEC |-> CLOCKS_PER_SEC, clockBits |-> clockBits,
              clockAvailable |-> clockAvailable, cpuTime |-> cpuTime,
              realTime |-> realTime, pc |-> pc, i |-> i, callA |-> callA,
              callB |-> callB, crashed |-> crashed]

\* A sys_init that clears the variable i of the calls in progress.
sys_init_body_clear(s) == [s EXCEPT !.i = [th \in Threads |-> 0]]

\* Lines 11-14: the body of sys_init is empty.
sys_init_body(s) == s

\* Processor time the process may have used before the stack first calls the
\* port, on a build with cps ticks per second: none, or two ticks short of a
\* wrap of a 32-bit clock_t, of the millisecond count, or of a 64-bit clock_t.
StartTicks(cps) ==
    {0, U32Mod - 2, 2 ^ (2 * U32Bits) - 2}
        \cup {U32Mod * m - 2 : m \in {cps \div 1000} \ {0}}

\* The state when the stack starts, on a host with CLOCKS_PER_SEC in clocksPerSec.
InitHost(clocksPerSec) ==
    /\ CLOCKS_PER_SEC \in clocksPerSec
    /\ clockBits \in ClockWidths
    /\ clockAvailable \in BOOLEAN
    /\ cpuTime \in StartTicks(CLOCKS_PER_SEC)
    /\ realTime = 0
    /\ steps = 0
    /\ pc = [th \in Threads |-> "idle"]
    /\ i = [th \in Threads |-> 0]
    /\ cur = [th \in Threads |-> NoCall]
    /\ startup = "cold"
    /\ callA = NoCall
    /\ callB = NoCall
    /\ crashed = FALSE

\* The port on its target.
Init == InitHost(TargetClocksPerSec)

\* The port built on any ISO C host.
InitAnyHost == InitHost(AnyClocksPerSec)

\* Thread th enters sys_now and executes line 6: clock_t i = clock() /
\* (CLOCKS_PER_SEC / 1000).  cur[th] notes what clock() returned and when,
\* whether a completed call precedes this one, and whether this is the first
\* call after sys_init.
sys_now_line6(th) ==
    /\ ~crashed
    /\ pc[th] = "idle"
    /\ cur' = [cur EXCEPT ![th] = [made |-> TRUE, raw |-> clock, val |-> 0,
                                   cpu |-> cpuTime, real |-> realTime,
                                   after |-> callB.made,
                                   init |-> startup = "init"]]
    /\ \E o \in Line6Outcomes(clock) :
          IF o = -1
          THEN /\ crashed' = TRUE
               /\ pc' = [pc EXCEPT ![th] = "trap"]
               /\ UNCHANGED i
          ELSE /\ i' = [i EXCEPT ![Slot(th)] = o]
               /\ pc' = [pc EXCEPT ![th] = "line8"]
               /\ UNCHANGED crashed
    /\ startup' = IF startup = "init" THEN "warm" ELSE startup
    /\ UNCHANGED <<CLOCKS_PER_SEC, clockBits, clockAvailable, cpuTime, realTime,
                   steps, callA, callB>>

\* Thread th executes line 8: return (u32_t)i.  The call becomes callB; calls
\* still in progress began before it completed.
sys_now_line8(th) ==
    /\ ~crashed
    /\ pc[th] = "line8"
    /\ callB' = [cur[th] EXCEPT !.val = sys_now_return_value(i[Slot(th)])]
    /\ callA' = callB
    /\ cur' = [o \in Threads |->
                 IF o = th THEN NoCall ELSE [cur[o] EXCEPT !.after = FALSE]]
    /\ i' = [i EXCEPT ![Slot(th)] = 0]
    /\ pc' = [pc EXCEPT ![th] = "idle"]
    /\ UNCHANGED <<CLOCKS_PER_SEC, clockBits, clockAvailable, cpuTime, realTime,
                   steps, startup, crashed>>

\* Thread th calls sys_init (lines 11-14), which the stack does once.
sys_init(th) ==
    /\ ~crashed
    /\ pc[th] = "idle"
    /\ startup = "cold"
    /\ LET s == sys_init_body(PortState) IN
          /\ CLOCKS_PER_SEC' = s.CLOCKS_PER_SEC
          /\ clockBits' = s.clockBits
          /\ clockAvailable' = s.clockAvailable
          /\ cpuTime' = s.cpuTime
          /\ realTime' = s.realTime
          /\ pc' = s.pc
          /\ i' = s.i
          /\ callA' = s.callA
          /\ callB' = s.callB
          /\ crashed' = s.crashed
    /\ startup' = "init"
    /\ UNCHANGED <<steps, cur>>

\* ---- the host ----

\* The process runs on the processor for d ticks.
Run(d) ==
    /\ ~crashed
    /\ steps < MaxSteps
    /\ cpuTime' = cpuTime + d
    /\ realTime' = realTime + d
    /\ steps' = steps + 1
    /\ UNCHANGED <<CLOCKS_PER_SEC, clockBits, clockAvailable, pc, i, cur,
                   startup, callA, callB, crashed>>

\* The process sleeps for 100 ms: real time passes, no processor time is used.
Sleep ==
    /\ ~crashed
    /\ steps < MaxSteps
    /\ realTime' = realTime + MsToTicks(100)
    /\ steps' = steps + 1
    /\ UNCHANGED <<CLOCKS_PER_SEC, clockBits, clockAvailable, cpuTime, pc, i,
                   cur, startup, callA, callB, crashed>>

\* The process runs on the processor for as long as the millisecond count takes
\* to go through all values of u32_t.
LongRun == Run(MsToTicks(U32Mod))

Next ==
    \/ \E th \in Threads : sys_now_line6(th)
    \/ \E th \in Threads : sys_now_line8(th)
    \/ \E th \in Threads : sys_init(th)
    \/ \E d \in RunTicks : Run(d)
    \/ Sleep
    \/ LongRun

Spec == Init /\ [][Next]_vars

SpecAnyHost == InitAnyHost /\ [][Next]_vars

\* ---- properties ----

\* (b - a) in unsigned 32-bit arithmetic.
U32Sub(b, a) == (b - a + U32Mod) % U32Mod

\* One millisecond's worth of ticks.
MsWorth == CLOCKS_PER_SEC \div 1000

\* The millisecond count of t ticks: floor(t * 1000 / CLOCKS_PER_SEC).
MsOf(t) == (t \div CLOCKS_PER_SEC) * 1000 + ((t % CLOCKS_PER_SEC) * 1000) \div CLOCKS_PER_SEC

\* callA and callB are two calls of sys_now, callB begun after callA completed.
AThenB == callA.made /\ callB.made /\ callB.after

\* C1: for two calls A then B of sys_now between which clock() did not
\* decrease, B's reading is at least A's, unless the millisecond count passed
\* a multiple of 2^32 between them.
C1_Monotonic ==
    (AThenB /\ callA.raw <= callB.raw) =>
        \/ callB.val >= callA.val
        \/ (callA.raw \div MsWorth) \div U32Mod < (callB.raw \div MsWorth) \div U32Mod

\* C1 witness: clock() advanced between A and B and so did the reading.
C1_Witness == AThenB /\ callA.raw < callB.raw /\ callB.val > callA.val

\* C2: for two calls A then B less than 2^32 ms of real time apart (on a host
\* that can tell the processor time), the unsigned difference of the readings
\* is the elapsed real time in milliseconds, up to 1 ms.
C2_ElapsedConsistent ==
    (AThenB /\ clockAvailable /\ callB.real - callA.real < MsToTicks(U32Mod)) =>
        LET d == U32Sub(callB.val, callA.val)
            e == MsOf(callB.real - callA.real)
        IN  d >= e - 1 /\ d <= e + 1

\* C3: when B is called 100 ms of real time after A (on a host that can tell
\* the processor time), B's reading minus A's is at least 90 and at most 500,
\* and is not negative.
C3_SleepScenario ==
    (AThenB /\ clockAvailable /\ callB.real - callA.real = MsToTicks(100)) =>
        /\ callB.val - callA.val >= 90
        /\ callB.val - callA.val <= 500

C5_WrapsOnlyAt32Bits ==
    /\ (callB.made /\ clockAvailable) =>
           callB.val = (callB.cpu \div MsWorth) % U32Mod
    /\ (AThenB /\ clockAvailable /\ callB.val < callA.val) =>
           (callA.cpu \div MsWorth) \div U32Mod < (callB.cpu \div MsWorth) \div U32Mod

C7_InitNoEffect ==
    [][(startup = "cold" /\ startup' = "init") =>
          /\ UNCHANGED <<CLOCKS_PER_SEC, clockBits, clockAvailable, cpuTime,
                         realTime, steps, pc, i, cur, callA, callB, crashed>>
          /\ sys_now_return_value(sys_now_i(clock))'
                 = sys_now_return_value(sys_now_i(clock))
          /\ ~crashed']_vars

\* C7 witness: sys_init has been called while a call of sys_now was in
\* progress with a non-zero i, after another call had completed.
C7_Witness ==
    startup = "init" /\ callB.made /\ \E th \in Threads : pc[th] = "line8" /\ i[th] > 0

\* C8: when sys_now is the first call after sys_init, the process is not
\* terminated in it and it returns a value in 0 .. 2^32 - 1.
C8_InitThenNow ==
    /\ (\E th \in Threads : cur[th].made /\ cur[th].init) => ~crashed
    /\ (callB.made /\ callB.init) => callB.val \in 0 .. U32Mod - 1

\* C8 witness: the first sys_now after sys_init has returned a non-zero reading.
C8_Witness == ~crashed /\ callB.made /\ callB.init /\ callB.val > 0

\* What a step of thread th leaves alone: the host, and the position and
\* variable i of every other thread.
NoSharedWrite(th) ==
    (pc'[th] # pc[th]) =>
        /\ UNCHANGED <<CLOCKS_PER_SEC, clockBits, clockAvailable, cpuTime, realTime>>
        /\ \A o \in Threads \ {th} : pc'[o] = pc[o] /\ i'[o] = i[o]

\* No thread waits: whatever the other threads do, an idle thread can enter
\* sys_now (and sys_init, until it has been called), and a thread in sys_now
\* can return.
NonBlocking ==
    ~crashed =>
        \A th \in Threads :
            /\ pc[th] = "idle" => ENABLED sys_now_line6(th)
            /\ (pc[th] = "idle" /\ startup = "cold") => ENABLED sys_init(th)
            /\ pc[th] = "line8" => ENABLED sys_now_line8(th)

\* Two completed calls in which clock() returned the same value returned the
\* same reading.
ReadingDependsOnClockOnly ==
    (callA.made /\ callB.made /\ callA.raw = callB.raw) => callA.val = callB.val

\* C9: in every interleaving of the threads' calls no call waits on another,
\* no step of a call writes what another thread or the host holds, and the
\* reading of a call depends only on the value clock() returned in that call.
C9_Concurrent ==
    /\ [](NonBlocking /\ ReadingDependsOnClockOnly)
    /\ [][\A th \in Threads : NoSharedWrite(th)]_vars

\* C9 witness: both threads are in sys_now at once, having read different
\* clock() values, after two calls completed with the same clock() value.
C9_Witness ==
    /\ \A th \in Threads : pc[th] = "line8"
    /\ cur["tcpip"].raw # cur["app"].raw
    /\ callA.made /\ callB.made /\ callA.raw = callB.raw

====
